---- MODULE Spec2Model ----
(***************************************************************************)
(* Video bit-rate calculator: the parsing core (parseInputString,          *)
(* parseInput, parseDuration, parseFileSize, parseBitRate and the three    *)
(* calculators) of src/src/App.tsx, lines 288-606, and the shell that      *)
(* submits lines to it and keeps the log of results (the component App,    *)
(* lines 1-161).                                                           *)
(*                                                                         *)
(* Strings are TLA+ strings; a character is a string of length 1.          *)
(* A JavaScript number is a record: a non-negative rational n/d * 10^e     *)
(* in normal form, or NaN, or Infinity.  No negative number can arise:     *)
(* no grammar of the program reads a sign.                                 *)
(***************************************************************************)
EXTENDS Integers, Sequences, FiniteSets, TLC

VARIABLES arg, call, ret, history, inputValue, historyIndex, events

vars == <<arg, call, ret, history, inputValue, historyIndex, events>>

(***************************************************************************)
(* Characters and strings                                                  *)
(***************************************************************************)
DigitChars == {"0", "1", "2", "3", "4", "5", "6", "7", "8", "9"}

WhiteSpace == {" ", "\t"}

Ch(s, i) == IF i >= 1 /\ i <= Len(s) THEN SubSeq(s, i, i) ELSE ""

From(s, i) == SubSeq(s, i, Len(s))

StartsWith(s, p) == Len(s) >= Len(p) /\ SubSeq(s, 1, Len(p)) = p

RECURSIVE IndexOf(_, _, _)
\* first position >= i where the character c stands in s, 0 when there is none
IndexOf(s, c, i) ==
    IF i > Len(s) THEN 0
    ELSE IF Ch(s, i) = c THEN i
    ELSE IndexOf(s, c, i + 1)

Includes(s, c) == IndexOf(s, c, 1) > 0

RECURSIVE Split(_, _)
\* String.prototype.split(sep) for a one-character separator
Split(s, sep) ==
    LET i == IndexOf(s, sep, 1)
    IN  IF i = 0 THEN <<s>>
        ELSE <<SubSeq(s, 1, i - 1)>> \o Split(From(s, i + 1), sep)

RECURSIVE TrimStart(_)
TrimStart(s) == IF Len(s) > 0 /\ Ch(s, 1) \in WhiteSpace THEN TrimStart(From(s, 2)) ELSE s

RECURSIVE TrimEnd(_)
TrimEnd(s) ==
    IF Len(s) > 0 /\ Ch(s, Len(s)) \in WhiteSpace
    THEN TrimEnd(SubSeq(s, 1, Len(s) - 1))
    ELSE s

\* String.prototype.trim
Trim(s) == TrimEnd(TrimStart(s))

RECURSIVE Join(_, _)
\* Array.prototype.join
Join(ss, sep) ==
    IF ss = <<>> THEN ""
    ELSE IF Len(ss) = 1 THEN ss[1]
    ELSE ss[1] \o sep \o Join(Tail(ss), sep)

(***************************************************************************)
(* Regular-expression pieces.  A matcher takes a string and a start        *)
(* position and returns the position after the match, 0 when it fails.     *)
(***************************************************************************)
RECURSIVE DigitsEnd(_, _)
\* \d* from i, greedy: the position after the run of digits
DigitsEnd(s, i) == IF Ch(s, i) \in DigitChars THEN DigitsEnd(s, i + 1) ELSE i

\* \d+
MatchDigits(s, i) == LET j == DigitsEnd(s, i) IN IF j > i THEN j ELSE 0

\* \d+(?:\.\d+)?   (no unit of any grammar starts with "." or a digit, so
\* the greedy match is the only one a following unit can complete)
MatchNumber(s, i) ==
    LET j == MatchDigits(s, i)
    IN  IF j = 0 THEN 0
        ELSE IF Ch(s, j) = "." /\ MatchDigits(s, j + 1) > 0 THEN MatchDigits(s, j + 1)
        ELSE j

\* (?:\d+<unit>)? from i, for a one-character unit: the position after it,
\* i itself when the optional group matches nothing
MatchOptPart(s, i, units) ==
    LET j == MatchDigits(s, i)
    IN  IF j > 0 /\ Ch(s, j) \in units THEN j + 1 ELSE i

\* ^\d+(?:\.\d+)?(?:u1|u2|...)$
NumberWithUnit(t, units) ==
    LET j == MatchNumber(t, 1) IN j > 0 /\ From(t, j) \in units

FileSizeUnits == {"B", "KB", "MB", "GB", "TB"}

BitRateUnits == {"bps", "kbps", "Mbps", "Gbps", "k", "M", "G"}

\* regexes.fileSize
IsFileSize(t) == NumberWithUnit(t, FileSizeUnits)

\* /^\d+:\d+:\d+$/
IsColon3(t) ==
    LET a == MatchDigits(t, 1)
        b == IF a > 0 /\ Ch(t, a) = ":" THEN MatchDigits(t, a + 1) ELSE 0
        c == IF b > 0 /\ Ch(t, b) = ":" THEN MatchDigits(t, b + 1) ELSE 0
    IN  c > 0 /\ c = Len(t) + 1

\* /^\d+:\d+$/
IsColon2(t) ==
    LET a == MatchDigits(t, 1)
        b == IF a > 0 /\ Ch(t, a) = ":" THEN MatchDigits(t, a + 1) ELSE 0
    IN  b > 0 /\ b = Len(t) + 1

\* /^\d+h(?:\d+m)?(?:\d+s)?$/
IsCompoundH(t) ==
    LET a == MatchDigits(t, 1)
    IN  /\ a > 0
        /\ Ch(t, a) = "h"
        /\ MatchOptPart(t, MatchOptPart(t, a + 1, {"m"}), {"s"}) = Len(t) + 1

\* /^\d+m(?:\d+s)?$/
IsCompoundM(t) ==
    LET a == MatchDigits(t, 1)
    IN  /\ a > 0
        /\ Ch(t, a) = "m"
        /\ MatchOptPart(t, a + 1, {"s"}) = Len(t) + 1

\* regexes.duration: the five patterns, any of them
IsDuration(t) ==
    \/ NumberWithUnit(t, {"h", "m", "s"})
    \/ IsColon3(t)
    \/ IsColon2(t)
    \/ IsCompoundH(t)
    \/ IsCompoundM(t)

\* regexes.resolution: /^\d+x\d+$/
IsResolution(t) ==
    LET a == MatchDigits(t, 1)
        b == IF a > 0 /\ Ch(t, a) = "x" THEN MatchDigits(t, a + 1) ELSE 0
    IN  b > 0 /\ b = Len(t) + 1

\* regexes.frameRate
IsFrameRate(t) == NumberWithUnit(t, {"fps"})

\* regexes.bitRate
IsBitRate(t) == NumberWithUnit(t, BitRateUnits)

\* the keys of regexes, in the order for..in visits them
KindOrder == <<"fileSize", "duration", "resolution", "frameRate", "bitRate">>

Matches(kind, t) ==
    CASE kind = "fileSize" -> IsFileSize(t)
      [] kind = "duration" -> IsDuration(t)
      [] kind = "resolution" -> IsResolution(t)
      [] kind = "frameRate" -> IsFrameRate(t)
      [] kind = "bitRate" -> IsBitRate(t)

RECURSIVE FirstKind(_, _)
\* the first key whose regexes match the token, "" when none does
FirstKind(t, i) ==
    IF i > Len(KindOrder) THEN ""
    ELSE IF Matches(KindOrder[i], t) THEN KindOrder[i]
    ELSE FirstKind(t, i + 1)

(***************************************************************************)
(* JavaScript numbers.  Num(n, d, e) is n/d * 10^e in normal form:         *)
(* gcd(n, d) = 1, d prime to 10, n not a multiple of 10 (zero is 0/1).     *)
(* The arithmetic is exact; IEEE-754 rounding of the last bit is not       *)
(* modelled.                                                               *)
(***************************************************************************)
NaN == [k |-> "NaN"]

Infinity == [k |-> "Infinity"]

Null == [k |-> "null"]

Zero == [k |-> "num", n |-> 0, d |-> 1, e |-> 0]

IsNum(x) == x.k = "num"

RECURSIVE GCD(_, _)
GCD(a, b) == IF b = 0 THEN a ELSE GCD(b, a % b)

RECURSIVE Pow10(_)
Pow10(k) == IF k <= 0 THEN 1 ELSE 10 * Pow10(k - 1)

RECURSIVE DenPrimeTo10(_, _, _)
\* moves the factors 2 and 5 of the denominator into the exponent
DenPrimeTo10(n, d, e) ==
    IF d % 2 = 0 THEN DenPrimeTo10(n * 5, d \div 2, e - 1)
    ELSE IF d % 5 = 0 THEN DenPrimeTo10(n * 2, d \div 5, e - 1)
    ELSE [k |-> "num", n |-> n, d |-> d, e |-> e]

RECURSIVE StripTens(_)
\* moves the factors 10 of the numerator into the exponent
StripTens(x) ==
    IF x.n % 10 = 0 THEN StripTens([x EXCEPT !.n = x.n \div 10, !.e = x.e + 1]) ELSE x

Num(n, d, e) ==
    IF n = 0 THEN Zero
    ELSE LET g == GCD(n, d) IN StripTens(DenPrimeTo10(n \div g, d \div g, e))

Whole(i) == Num(i, 1, 0)

IsZero(x) == IsNum(x) /\ x.n = 0

\* x * y
Mul(x, y) ==
    IF x = NaN \/ y = NaN THEN NaN
    ELSE IF x = Infinity \/ y = Infinity
         THEN (IF IsZero(x) \/ IsZero(y) THEN NaN ELSE Infinity)
    ELSE LET g1 == GCD(x.n, y.d)
             g2 == GCD(y.n, x.d)
         IN  IF x.n = 0 \/ y.n = 0 THEN Zero
             ELSE Num((x.n \div g1) * (y.n \div g2), (x.d \div g2) * (y.d \div g1), x.e + y.e)

\* x / y
Div(x, y) ==
    IF x = NaN \/ y = NaN THEN NaN
    ELSE IF x = Infinity THEN (IF y = Infinity THEN NaN ELSE Infinity)
    ELSE IF y = Infinity THEN Zero
    ELSE IF y.n = 0 THEN (IF x.n = 0 THEN NaN ELSE Infinity)
    ELSE Mul(x, [k |-> "num", n |-> y.d, d |-> y.n, e |-> 0 - y.e])

\* x >= 10^p, for a number x
NumGePow10(x, p) ==
    LET j == x.e - p
    IN  IF x.n = 0 THEN FALSE
        ELSE IF j >= 0
             THEN (IF j > 9 THEN TRUE ELSE x.n >= (x.d + Pow10(j) - 1) \div Pow10(j))
             ELSE (IF 0 - j > 9 THEN FALSE ELSE x.n \div Pow10(0 - j) >= x.d)

\* x >= 10^p as JavaScript compares: false for NaN
GePow10(x, p) == IF x = NaN THEN FALSE ELSE IF x = Infinity THEN TRUE ELSE NumGePow10(x, p)

\* x < 10^p as JavaScript compares: false for NaN
LtPow10(x, p) == IF x = NaN \/ x = Infinity THEN FALSE ELSE ~NumGePow10(x, p)

\* x > 0
GtZero(x) == x = Infinity \/ (IsNum(x) /\ x.n > 0)

\* !x : 0, NaN and null are falsy
Falsy(x) == x = Null \/ x = NaN \/ IsZero(x)

\* the integer floor(x), for a number x
FloorInt(x) ==
    IF x.e >= 0 THEN (x.n * Pow10(x.e)) \div x.d
    ELSE IF 0 - x.e > 9 THEN 0
    ELSE (x.n \div Pow10(0 - x.e)) \div x.d

\* Math.floor
Floor(x) == IF IsNum(x) THEN Whole(FloorInt(x)) ELSE x

\* x - Math.floor(x), for a number x
Frac(x) ==
    IF x.e >= 0 THEN Num((x.n * Pow10(x.e)) % x.d, x.d, 0)
    ELSE Num(x.n % (x.d * Pow10(0 - x.e)), x.d, x.e)

\* x % m for a positive integer m
Mod(x, m) == IF IsNum(x) THEN Mul(Whole(m), Frac(Div(x, Whole(m)))) ELSE NaN

(***************************************************************************)
(* Numbers to strings                                                      *)
(***************************************************************************)
DigitString == "0123456789"

RECURSIVE IntToString(_)
IntToString(i) ==
    IF i < 10 THEN Ch(DigitString, i + 1)
    ELSE IntToString(i \div 10) \o Ch(DigitString, (i % 10) + 1)

RECURSIVE Zeros(_)
Zeros(k) == IF k <= 0 THEN "" ELSE "0" \o Zeros(k - 1)

RECURSIVE Log10Up(_, _, _)
\* the largest p with d * 10^p <= n, for n >= d
Log10Up(n, d, p) == IF n \div 10 >= d THEN Log10Up(n \div 10, d, p + 1) ELSE p

RECURSIVE Log10Down(_, _, _)
\* minus the smallest p with n * 10^p >= d, for n < d
Log10Down(n, d, p) == IF n >= d THEN 0 - p ELSE Log10Down(n * 10, d, p + 1)

\* floor(log10(n/d))
Log10(n, d) == IF n >= d THEN Log10Up(n, d, 0) ELSE Log10Down(n, d, 0)

\* round(n/d * 10^j), halves up
RoundScaled(n, d, j) ==
    IF j >= 0 THEN (2 * n * Pow10(j) + d) \div (2 * d)
    ELSE (2 * n + d * Pow10(0 - j)) \div (2 * d * Pow10(0 - j))

\* the three digits r (100..999) at decimal exponent p, as toPrecision(3)
\* writes them: fixed notation for 0 <= p < 3 and -7 < p < 0, else exponential
Precision3(r, p) ==
    LET ds == IntToString(r)
    IN  IF p >= 3
        THEN Ch(ds, 1) \o "." \o From(ds, 2) \o "e+" \o IntToString(p)
        ELSE IF p >= 0
        THEN (IF p = 2 THEN ds ELSE SubSeq(ds, 1, p + 1) \o "." \o From(ds, p + 2))
        ELSE IF p >= 0 - 6
        THEN "0." \o Zeros((0 - p) - 1) \o ds
        ELSE Ch(ds, 1) \o "." \o From(ds, 2) \o "e-" \o IntToString(0 - p)

\* Number.prototype.toPrecision(3)
toPrecision3(x) ==
    IF ~IsNum(x) THEN x.k
    ELSE IF x.n = 0 THEN "0.00"
    ELSE LET p0 == Log10(x.n, x.d)
             r == RoundScaled(x.n, x.d, 2 - p0)
         IN  IF r = 1000 THEN Precision3(100, p0 + x.e + 1) ELSE Precision3(r, p0 + x.e)

RECURSIVE LongDivision(_, _, _)
\* the first k digits of rem/d after the decimal point
LongDivision(rem, d, k) ==
    IF k = 0 \/ rem = 0 THEN ""
    ELSE IntToString((rem * 10) \div d) \o LongDivision((rem * 10) % d, d, k - 1)

\* String(x), as a template literal writes a number.  An integer and a
\* terminating decimal are written exactly; a quotient with no finite
\* expansion is cut after 16 fractional digits (JavaScript writes
\* the shortest digits that name the nearest double).
NumToString(x) ==
    IF ~IsNum(x) THEN x.k
    ELSE IF x.d = 1 /\ x.e >= 0 THEN IntToString(x.n) \o Zeros(x.e)
    ELSE IF x.d = 1
    THEN LET ds == IntToString(x.n)
             f == 0 - x.e
         IN  IF Len(ds) > f
             THEN SubSeq(ds, 1, Len(ds) - f) \o "." \o From(ds, Len(ds) - f + 1)
             ELSE "0." \o Zeros(f - Len(ds)) \o ds
    ELSE LET whole == FloorInt(x)
             fr == Frac(x)
             \* fr = fr.n / fr.d * 10^fr.e with fr.e <= 0
             shown == IF fr.e >= 0 THEN fr.n * Pow10(fr.e) ELSE fr.n
             den == IF fr.e >= 0 THEN fr.d ELSE fr.d * Pow10(0 - fr.e)
         IN  IntToString(whole) \o "." \o LongDivision(shown, den, 16)

(***************************************************************************)
(* Strings to numbers                                                      *)
(***************************************************************************)
RECURSIVE DigitsVal(_)
\* the value of a string of digits
DigitsVal(s) ==
    IF s = "" THEN 0
    ELSE DigitsVal(SubSeq(s, 1, Len(s) - 1)) * 10 + (IndexOf(DigitString, Ch(s, Len(s)), 1) - 1)

\* parseFloat of a string \d+(\.\d+)?
parseFloat(s) ==
    LET j == MatchDigits(s, 1)
        whole == SubSeq(s, 1, j - 1)
        frac == IF Ch(s, j) = "." THEN SubSeq(s, j + 1, MatchNumber(s, 1) - 1) ELSE ""
    IN  Num(DigitsVal(whole \o frac), 1, 0 - Len(frac))

\* parseInt(s, 10): the leading digits, NaN when there are none
parseInt(s) ==
    LET j == MatchDigits(s, 1) IN IF j = 0 THEN NaN ELSE Whole(DigitsVal(SubSeq(s, 1, j - 1)))

\* Number(s): 0 for the empty string, the value of \d+(\.\d+)?, else NaN
\* (signs, exponents, hexadecimal and surrounding blanks are not modelled:
\* they are NaN here)
ToNumber(s) ==
    IF s = "" THEN Zero
    ELSE IF MatchNumber(s, 1) = Len(s) + 1 THEN parseFloat(s)
    ELSE NaN

(***************************************************************************)
(* parseInputString                                                        *)
(***************************************************************************)
RECURSIVE MapTrim(_)
MapTrim(ss) == IF ss = <<>> THEN <<>> ELSE <<Trim(Head(ss))>> \o MapTrim(Tail(ss))

KeepToken(s) == Len(s) > 0 /\ ~StartsWith(s, "/")

\* input.split(" ").map(trim).filter(non-empty and not starting with "/")
Tokenize(input) == SelectSeq(MapTrim(Split(input, " ")), KeepToken)

RECURSIVE Classify(_, _, _)
\* tokens.forEach: parsed[key] = token for the first matching key, else
\* the token is pushed on unknownTokens
Classify(tokens, parsed, unknownTokens) ==
    IF tokens = <<>> THEN [parsed |-> parsed, unknownTokens |-> unknownTokens]
    ELSE LET token == Head(tokens)
             key == FirstKind(token, 1)
         IN  IF key = ""
             THEN Classify(Tail(tokens), parsed, Append(unknownTokens, token))
             ELSE Classify(Tail(tokens),
                           [k \in DOMAIN parsed \cup {key} |->
                               IF k = key THEN token ELSE parsed[k]],
                           unknownTokens)

parseInputString(input) == Classify(Tokenize(input), [k \in {} |-> ""], <<>>)

(***************************************************************************)
(* A thrown Error is the record Throw(message).  undefined (a key absent   *)
(* from parsed, a parameter not passed) is the empty string: both are      *)
(* falsy, and no token is empty.                                           *)
(***************************************************************************)
Throw(message) == [k |-> "throw", message |-> message]

IsThrow(x) == x.k = "throw"

Undefined == ""

\* x + y
Add(x, y) ==
    IF x = NaN \/ y = NaN THEN NaN
    ELSE IF x = Infinity \/ y = Infinity THEN Infinity
    ELSE LET e == IF x.e < y.e THEN x.e ELSE y.e
         IN  Num(x.n * Pow10(x.e - e) * y.d + y.n * Pow10(y.e - e) * x.d, x.d * y.d, e)

(***************************************************************************)
(* parseDuration                                                           *)
(***************************************************************************)
RECURSIVE MapNumber(_)
MapNumber(ss) == IF ss = <<>> THEN <<>> ELSE <<ToNumber(Head(ss))>> \o MapNumber(Tail(ss))

\* HMS with the hour taken for 60 seconds
HMSHourOfSixty(hours, minutes, seconds) ==
    Add(Add(Mul(hours, Whole(60)), Mul(minutes, Whole(60))), seconds)

\* hours * 3600 + minutes * 60 + seconds
HMS(hours, minutes, seconds) ==
    Add(Add(Mul(hours, Whole(3600)), Mul(minutes, Whole(60))), seconds)

\* one group of hmsRegex = /(\d+h)?(\d+m)?(\d+s)?/i from position i: the
\* text it captured, "" when the group did not take part
HmsGroup(s, i, units) == SubSeq(s, i, MatchOptPart(s, i, units) - 1)

\* x || "0"
OrZero(x) == IF x = "" THEN "0" ELSE x

\* n || 0
NumOrZero(x) == IF Falsy(x) THEN Zero ELSE x

\* The "1h30m" branch.  Every group of hmsRegex is optional, so the regex
\* matches at index 0 of any string and match is never null.
parseDurationHms(duration) ==
    LET g1 == HmsGroup(duration, 1, {"h", "H"})
        g2 == HmsGroup(duration, 1 + Len(g1), {"m", "M"})
        g3 == HmsGroup(duration, 1 + Len(g1) + Len(g2), {"s", "S"})
        hours == parseInt(OrZero(g1))
        minutes == parseInt(OrZero(g2))
        seconds == parseInt(OrZero(g3))
    IN  HMS(NumOrZero(hours), NumOrZero(minutes), NumOrZero(seconds))

\* The "nn:nn:nn" and "nn:nn" branch
parseDurationColon(duration) ==
    LET parts == MapNumber(Split(duration, ":"))
    IN  IF Len(parts) = 2 THEN Add(Mul(parts[1], Whole(60)), parts[2])
        ELSE IF Len(parts) = 3 THEN HMS(parts[1], parts[2], parts[3])
        ELSE Null

parseDuration(duration) ==
    IF Includes(duration, ":") THEN parseDurationColon(duration)
    ELSE parseDurationHms(duration)

(***************************************************************************)
(* parseFileSize                                                           *)
(***************************************************************************)
RECURSIVE FirstDigit(_, _)
\* the first position >= i of a digit in s, 0 when there is none
FirstDigit(s, i) ==
    IF i > Len(s) THEN 0
    ELSE IF Ch(s, i) \in DigitChars THEN i
    ELSE FirstDigit(s, i + 1)

\* toUpperCase of the letters the unit group can hold
UpperChar(c) ==
    CASE c = "t" -> "T" [] c = "g" -> "G" [] c = "m" -> "M" [] c = "k" -> "K"
      [] c = "b" -> "B" [] OTHER -> c

RECURSIVE toUpperCase(_)
toUpperCase(s) == IF s = "" THEN "" ELSE UpperChar(Ch(s, 1)) \o toUpperCase(From(s, 2))

\* ([TGMK]?B?) under the i flag, from position i: the captured unit
SizeUnitAt(s, i) ==
    LET j == IF UpperChar(Ch(s, i)) \in {"T", "G", "M", "K"} THEN i + 1 ELSE i
        l == IF UpperChar(Ch(s, j)) = "B" THEN j + 1 ELSE j
    IN  SubSeq(s, i, l - 1)

SizeMultiplier(unit) ==
    CASE unit = "TB" -> Num(1, 1, 12)
      [] unit = "GB" -> Num(1, 1, 9)
      [] unit = "MB" -> Num(1, 1, 6)
      [] unit = "KB" -> Num(1, 1, 3)
      [] OTHER -> Whole(1)

\* sizeRegex = /(\d+(\.\d+)?)([TGMK]?B?)/i is not anchored: it matches at the
\* first digit of the string
parseFileSize(fileSize) ==
    LET i == FirstDigit(fileSize, 1)
        j == MatchNumber(fileSize, i)
        size == SubSeq(fileSize, i, j - 1)
        unit == SizeUnitAt(fileSize, j)
    IN  IF i = 0 THEN Throw("Invalid file size format.")
        ELSE Mul(parseFloat(size), SizeMultiplier(toUpperCase(unit)))

(***************************************************************************)
(* parseBitRate                                                            *)
(***************************************************************************)
LowerChar(c) ==
    CASE c = "M" -> "m" [] c = "G" -> "g" [] OTHER -> c

RECURSIVE toLowerCase(_)
\* toLowerCase of a unit of rateRegex
toLowerCase(s) == IF s = "" THEN "" ELSE LowerChar(Ch(s, 1)) \o toLowerCase(From(s, 2))

\* the switch on the lower-cased unit
RateOfUnit(value, unit) ==
    IF unit \in {"k", "kb", "kbps"} THEN Mul(value, Num(1, 1, 3))
    ELSE IF unit \in {"m", "mb", "mbps"} THEN Mul(value, Num(1, 1, 6))
    ELSE IF unit \in {"g", "gb", "gbps"} THEN Mul(value, Num(1, 1, 9))
    ELSE Throw("Unsupported bit rate unit.")

\* rateRegex = /^(\d+(?:\.\d+)?)(bps|kbps|Mbps|Gbps|k|M|G)$/
parseBitRate(bitRate) ==
    LET j == MatchNumber(bitRate, 1)
    IN  IF ~NumberWithUnit(bitRate, BitRateUnits) THEN Throw("Invalid bit rate format.")
        ELSE RateOfUnit(parseFloat(SubSeq(bitRate, 1, j - 1)), toLowerCase(From(bitRate, j)))

(***************************************************************************)
(* The calculators.  Each returns Return(string) or the Throw of a parser. *)
(***************************************************************************)
Return(value) == [k |-> "return", value |-> value]

\* x >= m for a positive integer m, as JavaScript compares
GeWhole(x, m) == IF IsNum(x) THEN NumGePow10(Div(x, Whole(m)), 0) ELSE x = Infinity

RECURSIVE IndexOfString(_, _, _)
\* String.prototype.indexOf from position i, 0 when pat does not occur
IndexOfString(s, pat, i) ==
    IF i + Len(pat) - 1 > Len(s) THEN 0
    ELSE IF SubSeq(s, i, i + Len(pat) - 1) = pat THEN i
    ELSE IndexOfString(s, pat, i + 1)

\* s.replace(pat, ""): the first occurrence removed
RemoveFirst(s, pat) ==
    LET i == IndexOfString(s, pat, 1)
    IN  IF i = 0 THEN s ELSE SubSeq(s, 1, i - 1) \o From(s, i + Len(pat))

\* width * height * fps
pixelsPerSecond(resolution, frameRate) ==
    LET parts == MapNumber(Split(resolution, "x"))
        width == parts[1]
        height == IF Len(parts) >= 2 THEN parts[2] ELSE NaN
        fps == parseInt(RemoveFirst(frameRate, "fps"))
    IN  Mul(Mul(width, height), fps)

\* the bit rate scaled to Mbps, kbps or bps
FormatBitRate(bitRate) ==
    IF GePow10(bitRate, 6) THEN toPrecision3(Div(bitRate, Num(1, 1, 6))) \o " Mbps"
    ELSE IF GePow10(bitRate, 3) THEN toPrecision3(Div(bitRate, Num(1, 1, 3))) \o " kbps"
    ELSE toPrecision3(bitRate) \o " bps"

calculateBitRate(fileSize, duration, resolution, frameRate) ==
    LET size == parseFileSize(fileSize)
        sizeInBits == Mul(size, Whole(8))
        bitRate == Div(sizeInBits, duration)
        bitsPerPixel ==
            IF resolution # Undefined /\ frameRate # Undefined
            THEN Div(bitRate, pixelsPerSecond(resolution, frameRate))
            ELSE Zero
    IN  IF IsThrow(size) THEN size
        ELSE Return(FormatBitRate(bitRate) \o
                    (IF GtZero(bitsPerPixel)
                     THEN " (" \o toPrecision3(bitsPerPixel) \o " bits/pixel)"
                     ELSE ""))

\* the size scaled to bytes, kB, MB, GB or TB
FormatFileSize(fileSize) ==
    IF LtPow10(fileSize, 3) THEN NumToString(fileSize) \o " bytes"
    ELSE IF LtPow10(fileSize, 6) THEN toPrecision3(Div(fileSize, Num(1, 1, 3))) \o " kB"
    ELSE IF LtPow10(fileSize, 9) THEN toPrecision3(Div(fileSize, Num(1, 1, 6))) \o " MB"
    ELSE IF LtPow10(fileSize, 12) THEN toPrecision3(Div(fileSize, Num(1, 1, 9))) \o " GB"
    ELSE toPrecision3(Div(fileSize, Num(1, 1, 12))) \o " TB"

\* fileSize = rateInBits * duration: the product is not divided by 8
FileSizeOf(rateInBits, duration, resolution, frameRate) ==
    IF resolution # Undefined /\ frameRate # Undefined
    THEN LET pps == pixelsPerSecond(resolution, frameRate)
             bitsPerPixel == Div(rateInBits, pps)
         IN  Mul(Mul(bitsPerPixel, pps), duration)
    ELSE Mul(rateInBits, duration)

calculateFileSize(bitRate, duration, resolution, frameRate) ==
    LET rateInBits == parseBitRate(bitRate)
    IN  IF IsThrow(rateInBits) THEN rateInBits
        ELSE Return(FormatFileSize(FileSizeOf(rateInBits, duration, resolution, frameRate)))

\* hours, minutes and seconds are written as they are: no zero is padded
FormatDuration(duration) ==
    IF GeWhole(duration, 3600)
    THEN LET hours == Floor(Div(duration, Whole(3600)))
             minutes == Floor(Div(Mod(duration, 3600), Whole(60)))
             seconds == Floor(Mod(duration, 60))
         IN  "(hh:mm:ss): " \o NumToString(hours) \o ":" \o NumToString(minutes)
                 \o ":" \o NumToString(seconds)
    ELSE IF GeWhole(duration, 60)
    THEN LET minutes == Floor(Div(duration, Whole(60)))
             seconds == Floor(Mod(duration, 60))
         IN  "(mm:ss): " \o NumToString(minutes) \o ":" \o NumToString(seconds)
    ELSE "(s): " \o NumToString(duration)

\* resolution and frameRate are read and not used
calculateDuration(fileSize, bitRate, resolution, frameRate) ==
    LET size == parseFileSize(fileSize)
        rateInBits == parseBitRate(bitRate)
    IN  IF IsThrow(size) THEN size
        ELSE IF IsThrow(rateInBits) THEN rateInBits
        ELSE Return(FormatDuration(Div(Mul(size, Whole(8)), rateInBits)))

(***************************************************************************)
(* parseInput                                                              *)
(***************************************************************************)
requiredKeys == <<"bitRate", "duration", "fileSize">>

Get(parsed, key) == IF key \in DOMAIN parsed THEN parsed[key] ELSE Undefined

\* ErrorToString without the name of the error
ErrorMessageOnly(error) == error.message

\* Error.prototype.toString
ErrorToString(error) == "Error: " \o error.message

\* the try block once the right number of parameters is there
Calculate(parsed) ==
    LET bitRate == Get(parsed, "bitRate")
        duration == Get(parsed, "duration")
        fileSize == Get(parsed, "fileSize")
        resolution == Get(parsed, "resolution")
        frameRate == Get(parsed, "frameRate")
        durationInSeconds == IF duration # Undefined THEN parseDuration(duration) ELSE Null
        prefixed(prefix, result) ==
            IF IsThrow(result) THEN result ELSE Return(prefix \o result.value)
    IN  IF duration # Undefined /\ Falsy(durationInSeconds)
        THEN Throw("Invalid duration format " \o duration)
        ELSE IF Falsy(durationInSeconds)
        THEN prefixed("Duration ", calculateDuration(fileSize, bitRate, resolution, frameRate))
        ELSE IF bitRate = Undefined
        THEN prefixed("Bit rate: ",
                      calculateBitRate(fileSize, durationInSeconds, resolution, frameRate))
        ELSE IF fileSize = Undefined
        THEN prefixed("File size: ",
                      calculateFileSize(bitRate, durationInSeconds, Undefined, Undefined))
        ELSE Throw("All values were provided. Nothing to calculate.")

\* TryParseInput with the unknown tokens passed over when the known
\* parameters are enough to calculate
TryParseInputSkippingUnknown(input) ==
    LET r == parseInputString(input)
        missingKeys == SelectSeq(requiredKeys, LAMBDA key : key \notin DOMAIN r.parsed)
    IN  IF Len(r.unknownTokens) > 0 /\ Len(missingKeys) # 1
        THEN Throw("Unknown tokens: " \o Join(r.unknownTokens, ", "))
        ELSE IF Len(missingKeys) # 1
        THEN Throw("Invalid input. Provide at least two parameters to calculate the missing value.")
        ELSE Calculate(r.parsed)

\* the try block: Return(output) or the Error thrown
TryParseInput(input) ==
    LET r == parseInputString(input)
        missingKeys == SelectSeq(requiredKeys, LAMBDA key : key \notin DOMAIN r.parsed)
    IN  IF Len(r.unknownTokens) > 0
        THEN Throw("Unknown tokens: " \o Join(r.unknownTokens, ", "))
        ELSE IF Len(missingKeys) # 1
        THEN Throw("Invalid input. Provide at least two parameters to calculate the missing value.")
        ELSE Calculate(r.parsed)

\* the catch block: every throw of the try block is an Error
parseInput(input) ==
    LET r == TryParseInput(input)
    IN  IF IsThrow(r) THEN [input |-> input, output |-> ErrorToString(r)]
        ELSE [input |-> input, output |-> r.value]

(***************************************************************************)
(* Inputs.  A line is up to MaxTokens fragments of TokenPool joined by one *)
(* space each (the empty fragment gives leading, trailing and double       *)
(* spaces), followed by one of RefinerTails, or one of TestLines.  A token *)
(* is a number with a suffix, a duration built of Parts, or one of         *)
(* OtherTokens.                                                            *)
(***************************************************************************)
MaxTokens == 3

TokenPool ==
    {"700MB", "700MiB", "2h", "0s", "30.5m", "500kbps", "500bps", "10X", "20Y", "/help", ""}

RefinerTails == {"", " 1920x1080 25fps"}

\* the lines of the tests of parseInput, and lines with one refiner only
TestLines ==
    {"10X 20Y", "500kbps", "99:99:99", "500kbps 00:02:00 10MB", "500kbps 10MB",
     "00:02:00 10MB", "500kbps 00:02:00", "700MB 2h", "700MiB 2h", "00:00 10MB",
     "700MB 2h 1920x1080", "700MB 2h 25fps", "700MB 500kbps 25fps",
     "900MB 1Mbps", "900MB 1Mbps 1920x1080 25fps", "10MB 500kbps",
     "10MB 500kbps 1920x1080 25fps", "1MB 500kbps", "1MB 500kbps 1920x1080 25fps"}

RECURSIVE LinesOf(_)
LinesOf(k) ==
    IF k <= 1 THEN TokenPool
    ELSE LinesOf(k - 1) \cup {l \o " " \o t : l \in LinesOf(k - 1), t \in TokenPool}

Lines == {l \o r : l \in LinesOf(MaxTokens), r \in RefinerTails} \cup TestLines

\* a string of digits and the integer it writes
Parts ==
    {[s |-> "0", v |-> 0], [s |-> "00", v |-> 0], [s |-> "1", v |-> 1], [s |-> "01", v |-> 1],
     [s |-> "20", v |-> 20], [s |-> "30", v |-> 30], [s |-> "90", v |-> 90]}

\* a component that may be absent from a compound duration
OptParts == Parts \cup {[s |-> "", v |-> 0]}

Unit(part, unit) == IF part.s = "" THEN "" ELSE part.s \o unit

Colon2Tokens == {m.s \o ":" \o s.s : m \in Parts, s \in Parts}

Colon3Tokens == {h.s \o ":" \o m.s \o ":" \o s.s : h \in Parts, m \in Parts, s \in Parts}

CompoundTokens ==
    {Unit(h, "h") \o Unit(m, "m") \o Unit(s, "s") : h \in OptParts, m \in OptParts, s \in OptParts}

\* a decimal literal and the number n * 10^e it writes
Literals ==
    {[s |-> "0", n |-> 0, e |-> 0], [s |-> "1", n |-> 1, e |-> 0],
     [s |-> "0.5", n |-> 5, e |-> 0 - 1], [s |-> "2.5", n |-> 25, e |-> 0 - 1],
     [s |-> "30.5", n |-> 305, e |-> 0 - 1], [s |-> "500", n |-> 5, e |-> 2],
     [s |-> "700", n |-> 7, e |-> 2]}

BinaryUnits == {"KiB", "MiB", "GiB", "TiB"}

Suffixes ==
    FileSizeUnits \cup BinaryUnits \cup BitRateUnits
        \cup {"", "h", "m", "s", "fps", "kg", "Bps", "tbps", "seconds", "kb", "mb"}

NumberTokens == {l.s \o u : l \in Literals, u \in Suffixes}

OtherTokens ==
    {"invalid", "foobar", "45seconds", "1:2:3:4", "1920x1080", "1m2h", "2H", "1:", "1.5:30"}

Tokens == NumberTokens \cup Colon2Tokens \cup Colon3Tokens \cup CompoundTokens \cup OtherTokens

IsToken(s) == ~Includes(s, " ")

\* the state of a shell that is mounted on an empty log and handles no event
ShellAtRest ==
    /\ history = <<>>
    /\ inputValue = ""
    /\ historyIndex = Null
    /\ events = 0

Init ==
    /\ arg \in Lines \cup Tokens
    /\ call = "none"
    /\ ret = <<>>
    /\ ShellAtRest

\* one call of a function of the library on the argument
Call(name, result) ==
    /\ call = "none"
    /\ call' = name
    /\ ret' = result
    /\ UNCHANGED <<arg, history, inputValue, historyIndex, events>>

CallParseInputString == Call("parseInputString", parseInputString(arg))

CallParseInput == Call("parseInput", parseInput(arg))

CallParseDuration == IsToken(arg) /\ Call("parseDuration", parseDuration(arg))

CallParseFileSize == IsToken(arg) /\ Call("parseFileSize", parseFileSize(arg))

CallParseBitRate == IsToken(arg) /\ Call("parseBitRate", parseBitRate(arg))

Next ==
    \/ CallParseInputString
    \/ CallParseInput
    \/ CallParseDuration
    \/ CallParseFileSize
    \/ CallParseBitRate

Spec == Init /\ [][Next]_vars

(***************************************************************************)
(* The shell.  history is the log of results, inputValue the state "input" *)
(* of the component (the value of the input box), historyIndex the         *)
(* position recalled in the log: Null or Index(i) for the number i.        *)
(* A handler reads the state of the render it was created in and queues    *)
(* state updates; the next render takes, for each state, the last update   *)
(* queued.  call and arg record the handler that ran last and what it      *)
(* handled (the line submitted, the key, the text typed); events counts    *)
(* the events handled.                                                     *)
(***************************************************************************)
maxHistoryItems == 100

MaxEvents == 4

MaxExcess == 1

help == "This is a simple calculator for video encoding parameters."

Index(i) == [k |-> "index", i |-> i]

\* the state the handlers of this render see
Render == [history |-> history, input |-> inputValue, historyIndex |-> historyIndex]

\* history[i]?.input || "", i counted from 0
InputAt(i) == IF i >= 0 /\ i < Len(history) THEN history[i + 1].input ELSE ""

\* history.slice(start), start counted from 0
slice(start) == SubSeq(history, start + 1, Len(history))

purgeOldHistory(queued) ==
    IF Len(history) > maxHistoryItems
    THEN LET trimmed == [queued EXCEPT !.history = slice(Len(history) - maxHistoryItems)]
         IN  IF historyIndex # Null /\ historyIndex.i < Len(history) - 1
             THEN [trimmed EXCEPT !.historyIndex = historyIndex]
             ELSE IF historyIndex # Null /\ historyIndex.i >= Len(history)
             THEN [trimmed EXCEPT !.historyIndex = Null]
             ELSE trimmed
    ELSE queued

handleClearHistory(queued) == [queued EXCEPT !.history = <<>>]

\* result is parseInput(input), which the handler computes for a line that
\* is no command.  parseInput returns a pair {input, output} for every line
\* and throws nothing, so the branches for a string, for another type and
\* for a caught error are never taken.
handleInputSubmit(result) ==
    IF StartsWith(inputValue, "/clear") THEN handleClearHistory(Render)
    ELSE IF StartsWith(inputValue, "/help")
    THEN [Render EXCEPT !.history = Append(history, [input |-> inputValue, output |-> help])]
    ELSE LET appended ==
                 [Render EXCEPT !.history =
                     Append(history, [input |-> result.input, output |-> result.output])]
             purged == purgeOldHistory(appended)
         IN  [purged EXCEPT !.input = "", !.historyIndex = Null]

handleKeyDown(key) ==
    IF key = "ArrowUp"
    THEN IF historyIndex = Null
         THEN [Render EXCEPT !.historyIndex = Index(Len(history) - 1),
                             !.input = InputAt(Len(history) - 1)]
         ELSE IF historyIndex.i > 0
         THEN [Render EXCEPT !.historyIndex = Index(historyIndex.i - 1),
                             !.input = InputAt(historyIndex.i - 1)]
         ELSE Render
    ELSE IF key = "ArrowDown"
    THEN IF historyIndex # Null /\ historyIndex.i < Len(history) - 1
         THEN [Render EXCEPT !.historyIndex = Index(historyIndex.i + 1),
                             !.input = InputAt(historyIndex.i + 1)]
         ELSE [Render EXCEPT !.historyIndex = Null, !.input = ""]
    ELSE Render

\* the lines typed into the input box
ShellLines == {"700MB 2h", "10X 20Y", "/help", "/clear"}

Keys == {"ArrowUp", "ArrowDown", "Escape"}

\* the i-th entry of a log in localStorage: results and help texts by turns
\* up to maxHistoryItems entries, help texts (which no submit trims) above
SavedEntry(i) ==
    IF i > maxHistoryItems \/ i % 2 = 0 THEN [input |-> "/help", output |-> help]
    ELSE [input |-> "700MB 2h", output |-> "Bit rate: 778 kbps"]

SavedLengths == {0, 2} \cup ((maxHistoryItems - 1) .. (maxHistoryItems + MaxExcess))

SavedLogs == {[i \in 1 .. n |-> SavedEntry(i)] : n \in SavedLengths}

InitShell ==
    /\ history \in SavedLogs
    /\ inputValue = ""
    /\ historyIndex = Null
    /\ events = 0
    /\ arg = ""
    /\ call = "none"
    /\ ret = <<>>

\* the render after a handler: each state takes the update queued for it
Handle(name, handled, queued) ==
    /\ events < MaxEvents
    /\ events' = events + 1
    /\ history' = queued.history
    /\ inputValue' = queued.input
    /\ historyIndex' = queued.historyIndex
    /\ call' = name
    /\ arg' = handled
    /\ UNCHANGED ret

OnChange == \E value \in ShellLines : Handle("onChange", value, [Render EXCEPT !.input = value])

HandleInputSubmit ==
    \E result \in {parseInput(inputValue)} :
        \E queued \in {handleInputSubmit(result)} :
            Handle("handleInputSubmit", inputValue, queued)

HandleKeyDown == \E key \in Keys : Handle("handleKeyDown", key, handleKeyDown(key))

NextShell ==
    \/ OnChange
    \/ HandleInputSubmit
    \/ HandleKeyDown

SpecShell == InitShell /\ [][NextShell]_vars

(***************************************************************************)
(* The properties                                                          *)
(***************************************************************************)
\* what the classifier makes of the line of this state
Unknown == parseInputString(arg).unknownTokens

Present == DOMAIN parseInputString(arg).parsed

Missing == {"bitRate", "duration", "fileSize"} \ Present

\* C1: a line with no unknown token that misses exactly one of bitRate,
\* duration and fileSize gets a computed result, never an error: "Duration "
\* when the duration is missing, "Bit rate: " when the bit rate is,
\* "File size: " when the file size is.
C1_ComputesTheMissingValue ==
    (call = "parseInput" /\ Unknown = <<>> /\ Cardinality(Missing) = 1) =>
        /\ Missing = {"duration"} => StartsWith(ret.output, "Duration ")
        /\ Missing = {"bitRate"} => StartsWith(ret.output, "Bit rate: ")
        /\ Missing = {"fileSize"} => StartsWith(ret.output, "File size: ")

\* C2: when the line holds a token that matches no parameter pattern, the
\* output is exactly "Error: Unknown tokens: " and the unknown tokens in
\* input order joined by ", ", whatever known parameters the line also holds.
C2_UnknownTokensReported ==
    call = "parseInput" =>
        /\ Unknown # <<>> => ret.output = "Error: Unknown tokens: " \o Join(Unknown, ", ")
        /\ \A u \in {"10X", "20Y", "700MiB"}, v \in {"10X", "20Y", "700MiB"},
              t \in {"700MB", "2h", "500kbps"} :
              /\ arg = u \o " " \o t \o " " \o v =>
                    ret.output = "Error: Unknown tokens: " \o u \o ", " \o v
              /\ arg = t \o " " \o u => ret.output = "Error: Unknown tokens: " \o u

\* an unknown token beside two known parameters, and two unknown tokens in order
C2_Witness ==
    /\ call = "parseInput"
    /\ arg \in {"10X 700MB 2h", "20Y 500kbps 10X"}
    /\ StartsWith(ret.output, "Error: Unknown tokens: ")

\* the failures of parseInput on the line of this state
UnknownTokenFailure == Unknown # <<>>

ParameterCountFailure == Unknown = <<>> /\ Cardinality(Missing) # 1

InvalidDurationFailure ==
    /\ Unknown = <<>>
    /\ Cardinality(Missing) = 1
    /\ "duration" \in Present
    /\ Falsy(parseDuration(parseInputString(arg).parsed["duration"]))

BitRateUnitFailure ==
    /\ Unknown = <<>>
    /\ Missing = {"duration"}
    /\ IsThrow(parseBitRate(parseInputString(arg).parsed["bitRate"]))

\* C3: parseInput returns, for every line, a pair {input, output} with the
\* raw line as input, and every failure (an unknown token, a wrong count of
\* parameters, an invalid duration, an invalid file size, an unsupported
\* bit-rate unit) is an output that starts with "Error: ".
C3_FailuresAreErrorOutputs ==
    call = "parseInput" =>
        /\ DOMAIN ret = {"input", "output"}
        /\ ret.input = arg
        /\ (\/ UnknownTokenFailure
            \/ ParameterCountFailure
            \/ InvalidDurationFailure
            \/ BitRateUnitFailure
            \/ IsThrow(TryParseInput(arg))) => StartsWith(ret.output, "Error: ")

\* an unsupported bit-rate unit and an invalid duration, both reported
C3_Witness ==
    /\ call = "parseInput"
    /\ ret.input = arg
    /\ \/ BitRateUnitFailure /\ ret.output = "Error: Unsupported bit rate unit."
       \/ InvalidDurationFailure /\ ret.output = "Error: Invalid duration format 30.5m"

\* C4: with no unknown token and zero, two or three of bitRate, duration and
\* fileSize missing, the output is exactly
\* "Error: Provide only two parameters to calculate the missing value."
C4_ProvideOnlyTwoParameters ==
    (call = "parseInput" /\ Unknown = <<>> /\ Cardinality(Missing) # 1) =>
        ret.output = "Error: Provide only two parameters to calculate the missing value."

\* C5: with bitRate, duration and fileSize all given and no unknown token,
\* the output is exactly "Error: All values were provided. Nothing to calculate."
C5_AllValuesProvided ==
    (call = "parseInput" /\ Unknown = <<>> /\ Missing = {}) =>
        ret.output = "Error: All values were provided. Nothing to calculate."

\* a binary unit and its multiplier (2^30 and 2^40 times a literal are past
\* the 32-bit integers of TLC; their tokens are in the first conjunct of C6)
BinaryMultipliers == {[unit |-> "KiB", mult |-> 1024], [unit |-> "MiB", mult |-> 1048576]}

\* C6: a size with a binary unit (KiB, MiB, GiB, TiB) is classified as
\* fileSize and converted with the power-of-two multiplier, KB, MB, GB, TB
\* with the power of ten; "700MiB 2h" gives "Bit rate: 816 kbps" and
\* "700MB 2h" gives "Bit rate: 778 kbps".
C6_BinaryUnits ==
    /\ (call = "parseInputString" /\ arg \in {l.s \o u : l \in Literals, u \in BinaryUnits}) =>
          ret = [parsed |-> [fileSize |-> arg], unknownTokens |-> <<>>]
    /\ call = "parseFileSize" =>
          \A l \in Literals :
              /\ \A b \in BinaryMultipliers :
                    arg = l.s \o b.unit => ret = Mul(Num(l.n, 1, l.e), Whole(b.mult))
              /\ arg = l.s \o "KB" => ret = Num(l.n, 1, l.e + 3)
              /\ arg = l.s \o "MB" => ret = Num(l.n, 1, l.e + 6)
              /\ arg = l.s \o "GB" => ret = Num(l.n, 1, l.e + 9)
              /\ arg = l.s \o "TB" => ret = Num(l.n, 1, l.e + 12)
    /\ call = "parseInput" =>
          /\ arg = "700MiB 2h" => ret.output = "Bit rate: 816 kbps"
          /\ arg = "700MB 2h" => ret.output = "Bit rate: 778 kbps"

\* the tokens of the lines that write a size S in bytes, a duration D > 0 in
\* seconds, a rate R in bits per second
SizesInBytes == {[s |-> "700MB", v |-> Num(7, 1, 8)], [s |-> "10MB", v |-> Num(1, 1, 7)]}

Pair(a, b) == {a \o " " \o b, b \o " " \o a}

DurationsInSeconds == {[s |-> "2h", v |-> Whole(7200)], [s |-> "00:02:00", v |-> Whole(120)]}

RatesInBits == {[s |-> "500kbps", v |-> Num(5, 1, 5)]}

\* C7: the bit rate computed from a size S and a duration D is S*8/D bits
\* per second, and the file size computed from a bit rate R and a duration
\* D is R*D/8 bytes, so that the two calculators are inverse to each other.
C7_CalculatorsRoundTrip ==
    call = "parseInput" =>
        \A d \in DurationsInSeconds :
            /\ \A z \in SizesInBytes :
                  arg \in Pair(z.s, d.s) =>
                      ret.output = "Bit rate: " \o FormatBitRate(Div(Mul(z.v, Whole(8)), d.v))
            /\ \A r \in RatesInBits :
                  arg \in Pair(r.s, d.s) =>
                      ret.output = "File size: " \o FormatFileSize(Div(Mul(r.v, d.v), Whole(8)))

\* a unit of the bit-rate grammar and the decimal exponent of its multiplier
RateUnits ==
    {[unit |-> "bps", e |-> 0], [unit |-> "kbps", e |-> 3], [unit |-> "k", e |-> 3],
     [unit |-> "Mbps", e |-> 6], [unit |-> "M", e |-> 6], [unit |-> "Gbps", e |-> 9],
     [unit |-> "G", e |-> 9]}

\* C8: parseBitRate maps every token <number>(bps|kbps|Mbps|Gbps|k|M|G) to
\* the number times 1, 10^3, 10^3, 10^6, 10^6, 10^9, 10^9 bits per second
\* and rejects none of them.
C8_BitRateOfEveryUnit ==
    call = "parseBitRate" =>
        \A l \in Literals, u \in RateUnits :
            arg = l.s \o u.unit => ret = Num(l.n, 1, l.e + u.e)

\* C9: parseDuration gives m*60+s for "m:s", h*3600+m*60+s for "h:m:s" and
\* for a compound token of <int>h, <int>m, <int>s in that order, an absent
\* component counting as 0.
C9_DurationInSeconds ==
    call = "parseDuration" =>
        /\ \A m \in Parts, s \in Parts :
              arg = m.s \o ":" \o s.s => ret = Whole(m.v * 60 + s.v)
        /\ \A h \in Parts, m \in Parts, s \in Parts :
              arg = h.s \o ":" \o m.s \o ":" \o s.s => ret = Whole(h.v * 3600 + m.v * 60 + s.v)
        /\ \A h \in OptParts, m \in OptParts, s \in OptParts :
              (arg # "" /\ arg = Unit(h, "h") \o Unit(m, "m") \o Unit(s, "s")) =>
                  ret = Whole(h.v * 3600 + m.v * 60 + s.v)

\* "01:01:01" gave 3661, "1h30m20s" gave 5420 and "90m" gave 5400
C9_Witness ==
    /\ call = "parseDuration"
    /\ \/ arg = "01:01:01" /\ ret = Whole(3661)
       \/ arg = "1h30m20s" /\ ret = Whole(5420)
       \/ arg = "90m" /\ ret = Whole(5400)

\* C10: parseDuration returns null for a token that is no well-formed
\* duration: one with no h/m/s component and no colon ("invalid", ""), one
\* with characters after a unit ("45seconds" and the like), and a
\* colon-separated token of neither two nor three parts.
C10_NullForMalformed ==
    (/\ call = "parseDuration"
     /\ arg \in {"invalid", "", "foobar", "45seconds", "1:2:3:4"}
                    \cup {l.s \o "seconds" : l \in Literals}) =>
        ret = Null

\* a size, a rate and the rendering of the time the size lasts at the rate
DurationCases ==
    {[size |-> "900MB", rate |-> "1Mbps", rendered |-> "(hh:mm:ss): 2:00:00"],
     [size |-> "10MB", rate |-> "500kbps", rendered |-> "(mm:ss): 2:40"],
     [size |-> "1MB", rate |-> "500kbps", rendered |-> "(s): 16"]}

\* C11: calculateDuration renders the duration by magnitude: "(hh:mm:ss): H:M:S"
\* from 3600 seconds on, "(mm:ss): M:S" from 60 seconds on, "(s): <seconds>"
\* below, with floored components; two hours are rendered
\* "(hh:mm:ss): 2:00:00", and a resolution and a frame rate on the line do
\* not change the result.
C11_DurationByMagnitude ==
    call = "parseInput" =>
        \A c \in DurationCases, t \in RefinerTails :
            arg = c.size \o " " \o c.rate \o t => ret.output = "Duration " \o c.rendered

\* C12: once a submit is processed, for a line that is neither a /clear nor
\* a /help command, the last entry of history is the pair {input, output} of
\* that line, also when the log held more than maxHistoryItems entries and
\* purgeOldHistory trimmed it in the same submit.
C12_SubmittedLineIsLastEntry ==
    (/\ call = "handleInputSubmit"
     /\ ~StartsWith(arg, "/clear")
     /\ ~StartsWith(arg, "/help")) =>
        /\ Len(history) > 0
        /\ history[Len(history)] = parseInput(arg)

\* C13: historyIndex is null or an index of the log, 0 <= historyIndex <
\* history.length, after every ArrowUp, ArrowDown, submit and /clear.
C13_HistoryIndexInLog ==
    historyIndex # Null => (historyIndex.i >= 0 /\ historyIndex.i < Len(history))

====
